---- MODULE Spec2Model ----
(***************************************************************************)
(* A state-machine model of the multi-camera streaming server (main.go):   *)
(* the transcode gateway (handleCameraStream), the tunnel manager          *)
(* (createSSHTunnel, createSystemSSHTunnel, monitorSSHTunnel, Start, Stop) *)
(* and the connection relay (handleTunnelConnection).                      *)
(*                                                                         *)
(* Every goroutine is a process with a program counter; one action is one  *)
(* step of a goroutine between two points at which another goroutine can   *)
(* observe or change shared state.  The remote host, the transcoding       *)
(* processes, the ssh child process and the HTTP clients are the           *)
(* environment: their moves are actions of their own.                      *)
(***************************************************************************)
EXTENDS Naturals, Sequences, FiniteSets, TLC

\* ------------------------------------------------------------------ bounds
\* HTTP stream requests that are served (each handler slot serves one).
MaxHandlers == 2
\* Chunks one transcoding process writes before it writes no more.
MaxChunks == 1

Handlers == 1..MaxHandlers
\* Processes: a handler starts at most one, named after the handler.
Pids == Handlers

\* The source table (Config.Cameras) and the ids a request can carry.
Cameras == {"depan", "garasi"}
RequestIds == Cameras \cup {"unknown"}

\* HTTP status codes written by handleCameraStream.
StatusOK == 200
StatusNotFound == 404
StatusInternalServerError == 500

\* Control channels (ssh clients) the process dials while it runs.
MaxClients == 2
\* Concurrent or repeated calls of Stop.
MaxStops == 2
\* Passphrase prompts the program can issue.
MaxPrompts == 2

\* Connections the accept loop hands to a relay goroutine.
MaxRelays == 2
MaxBurst == 2

Clients == 1..MaxClients
Stoppers == 1..MaxStops
Relays == 1..MaxRelays
\* The two copy directions of a relay: origin to destination (remoteConn to
\* localConn) and back.
Directions == {"in", "out"}
\* The two call sites of createSSHTunnel: Start and monitorSSHTunnel.
Callers == {"start", "monitor"}

\* remoteAddresses, in the order createSSHTunnel tries them.
Spellings == <<"0.0.0.0:port", ":port", "*:port">>
NSpell == Len(Spellings)

VARIABLES
    \* ---- shared server state (type Server)
    cancelled,     \* s.ctx is done (s.cancel() was called)
    httpServer,    \* s.httpServer: "nil", "serving", "shutdown"
    sshClient,     \* s.sshClient: 0 (nil) or the client it refers to
    wg,            \* s.wg: the wait group's counter
    \* ---- tunnel manager
    conn,          \* each ssh client: "none" (not dialed), "open", "closed"
    lsn,           \* the remote listener got from each client: "none", "open", "closed"
    alPc,          \* accept loop of each client's listener: "none", "select", "accept", "exited"
    startPc,       \* position of Start
    startResult,   \* what Start returned: "none", "ready", "precheck", "fatal"
    ctPc,          \* position of each caller's createSSHTunnel activation
    ctClient,      \* its local variable client (0: none)
    ctAuth,        \* its local variable authMethods, until ssh.Dial has used it
    ctIdx,         \* its loop index over remoteAddresses
    ctLsn,         \* its local variable listener: 0 (nil) or the spelling it was granted for
    ctRet,         \* its return value: "none", "ok", "auth", "dial", "bind"
    monPc,         \* position of monitorSSHTunnel
    fbPc,          \* position of createSystemSSHTunnel
    fbRet,         \* its return value: "none", "ok", "err"
    sysProc,       \* sshCmd.Process: "nil" or "set"
    sysChild,      \* the ssh child process: "none", "running", "exited", "reaped"
    watcherPc,     \* the goroutine in sshCmd.Wait(): "none", "waiting", "done"
    stopPc,        \* position of each call of Stop
    \* ---- environment of the tunnel manager
    envOK,         \* nothing outside the program fails: the credentials are usable,
                   \* the remote host is reachable and grants a bind it is asked for
    fwd,           \* the remote forward of the ssh child: "none", "up", "lost"
    agentCfg,      \* SSH_AUTH_SOCK names an agent
    keyFile,       \* the file at config.SSHKeyPath: "plain", "protected", "unusable"
    passphrase,    \* config.SSHPassphrase: "none" (empty), "right", "wrong"
    prompts,       \* passphrase prompts issued on the terminal so far
    \* ---- connection relay: one record per handleTunnelConnection goroutine
    rPc,           \* position of the relay: "none", "dial", "wait", "returned"
    rClient,       \* the ssh client whose listener accepted the connection
    rErr,          \* "dial" when the local dial failed ("none" otherwise)
    rRemote,       \* remoteConn: "none", "open", "eof" (the peer has finished), "closed"
    rLocal,        \* localConn: "none", "open", "eof", "closed"
    rCopy,         \* each copy goroutine: "none", "running", "finished"
    rDone,         \* the channel done: the directions whose result is buffered
    \* ---- transcode gateway: one record per handler goroutine
    hPc,           \* position of the handler in handleCameraStream
    hReq,          \* cameraID of the request ("none": no request yet)
    hCmd,          \* pid of cmd.Process (0: no process started)
    hErr,          \* the error path the handler took ("none": no error)
    clientConn,    \* the HTTP connection: "none", "connected", "gone" (the client has
                   \* left), "closed" (the response has ended)
    status,        \* response status committed on the wire (0: none yet)
    body,          \* stream chunks delivered to the client, in order
    procs,         \* process table: pid -> [st, src, written]
    pipe           \* stdout pipe of each process: chunks written, not yet read

streamVars == <<hPc, hReq, hCmd, hErr, clientConn, status, body, procs, pipe>>
sharedVars == <<cancelled, httpServer, sshClient, wg>>
tunnelVars == <<conn, lsn, alPc, startPc, startResult, ctPc, ctClient, ctAuth, ctIdx, ctLsn, ctRet,
                monPc, fbPc, fbRet, sysProc, sysChild, watcherPc, stopPc>>
credVars == <<agentCfg, keyFile, passphrase, prompts>>
envVars == <<envOK, fwd, credVars>>
relayVars == <<rPc, rClient, rErr, rRemote, rLocal, rCopy, rDone>>
vars == <<sharedVars, streamVars, tunnelVars, envVars, relayVars>>

NoProc == [st |-> "free", src |-> "none", written |-> 0]

\* ------------------------------------------------------- construction
\* NewServer: a fresh context, no HTTP server, no tunnel, nothing running.
InitShared ==
    /\ cancelled = FALSE
    /\ httpServer = "nil"
    /\ sshClient = 0
    /\ wg = 0

InitTunnel ==
    /\ conn = [c \in Clients |-> "none"]
    /\ lsn = [c \in Clients |-> "none"]
    /\ alPc = [c \in Clients |-> "none"]
    /\ startPc = "init"
    /\ startResult = "none"
    /\ ctPc = [k \in Callers |-> "idle"]
    /\ ctClient = [k \in Callers |-> 0]
    /\ ctAuth = [k \in Callers |-> <<>>]
    /\ ctIdx = [k \in Callers |-> 0]
    /\ ctLsn = [k \in Callers |-> 0]
    /\ ctRet = [k \in Callers |-> "none"]
    /\ monPc = "none"
    /\ fbPc = "idle"
    /\ fbRet = "none"
    /\ sysProc = "nil"
    /\ sysChild = "none"
    /\ watcherPc = "none"
    /\ stopPc = [k \in Stoppers |-> "idle"]

\* The environment starts in any condition.
\* The configuration the tunnel manager is run with unless said otherwise:
\* an agent is configured, the key file is not passphrase protected.
InitCreds ==
    /\ agentCfg = TRUE
    /\ keyFile = "plain"
    /\ passphrase = "none"
    /\ prompts = 0

InitEnv ==
    /\ envOK \in BOOLEAN
    /\ fwd = "none"
    /\ InitCreds

\* No connection has been accepted yet.
InitRelays ==
    /\ rPc = [r \in Relays |-> "none"]
    /\ rClient = [r \in Relays |-> 0]
    /\ rErr = [r \in Relays |-> "none"]
    /\ rRemote = [r \in Relays |-> "none"]
    /\ rLocal = [r \in Relays |-> "none"]
    /\ rCopy = [r \in Relays |-> [d \in Directions |-> "none"]]
    /\ rDone = [r \in Relays |-> <<>>]

InitStreams ==
    /\ hPc = [h \in Handlers |-> "idle"]
    /\ hReq = [h \in Handlers |-> "none"]
    /\ hCmd = [h \in Handlers |-> 0]
    /\ hErr = [h \in Handlers |-> "none"]
    /\ clientConn = [h \in Handlers |-> "none"]
    /\ status = [h \in Handlers |-> 0]
    /\ body = [h \in Handlers |-> <<>>]
    /\ procs = [p \in Pids |-> NoProc]
    /\ pipe = [p \in Pids |-> <<>>]

Init == InitShared /\ InitStreams /\ InitTunnel /\ InitEnv /\ InitRelays

\* ------------------------------------------------ transcode gateway
CameraExistsAlways(id) == TRUE

\* camera, exists := s.config.Cameras[cameraID]
CameraExists(id) == id \in Cameras

\* The HTTP server dispatches GET /stream/{id} to a handler goroutine, which
\* looks the camera up, builds the command and creates its stdout pipe: an
\* unknown id is answered 404, a pipe that cannot be created 500; no process
\* exists yet.  (Handlers are numbered in the order in which their requests
\* arrive, and the cameras in the order in which they are first requested.)
HRequest(h, id) ==
    /\ httpServer = "serving"
    /\ hPc[h] = "idle"
    /\ \A g \in Handlers : g < h => hPc[g] # "idle"
    /\ id = "garasi" => \E g \in Handlers : hReq[g] = "depan"
    /\ hReq' = [hReq EXCEPT ![h] = id]
    /\ IF ~CameraExists(id)
       THEN /\ status' = [status EXCEPT ![h] = StatusNotFound]
            /\ hErr' = [hErr EXCEPT ![h] = "notfound"]
            /\ hPc' = [hPc EXCEPT ![h] = "done"]
            /\ clientConn' = [clientConn EXCEPT ![h] = "closed"]
       ELSE \E pipeOK \in BOOLEAN :
              IF pipeOK
              THEN /\ hPc' = [hPc EXCEPT ![h] = "start"]
                   /\ clientConn' = [clientConn EXCEPT ![h] = "connected"]
                   /\ UNCHANGED <<status, hErr>>
              ELSE /\ status' = [status EXCEPT ![h] = StatusInternalServerError]
                   /\ hErr' = [hErr EXCEPT ![h] = "pipe"]
                   /\ hPc' = [hPc EXCEPT ![h] = "done"]
                   /\ clientConn' = [clientConn EXCEPT ![h] = "closed"]
    /\ UNCHANGED <<hCmd, body, procs, pipe, sharedVars, tunnelVars, envVars, relayVars>>

HStartFailLeak(h) ==
    /\ procs' = [procs EXCEPT ![h] =
                   [st |-> "running", src |-> hReq[h], written |-> 0]]
    /\ status' = [status EXCEPT ![h] = StatusInternalServerError]
    /\ hErr' = [hErr EXCEPT ![h] = "start"]
    /\ hPc' = [hPc EXCEPT ![h] = "done"]
    /\ clientConn' = [clientConn EXCEPT ![h] = "closed"]
    /\ UNCHANGED <<hReq, hCmd, body, pipe, sharedVars, tunnelVars, envVars, relayVars>>

\* cmd.Start() fails: http.Error(500) and return; nothing was spawned.
HStartFail(h) ==
    /\ status' = [status EXCEPT ![h] = StatusInternalServerError]
    /\ hErr' = [hErr EXCEPT ![h] = "start"]
    /\ hPc' = [hPc EXCEPT ![h] = "done"]
    /\ clientConn' = [clientConn EXCEPT ![h] = "closed"]
    /\ UNCHANGED <<hReq, hCmd, body, procs, pipe, sharedVars, tunnelVars, envVars, relayVars>>

\* cmd.Start() succeeds: a new process of the handler's own, bound to s.ctx.
HStartOK(h, p) ==
    /\ procs' = [procs EXCEPT ![p] = [st |-> "running", src |-> hReq[h], written |-> 0]]
    /\ pipe' = [pipe EXCEPT ![p] = <<>>]
    /\ hCmd' = [hCmd EXCEPT ![h] = p]
    /\ hPc' = [hPc EXCEPT ![h] = "copy"]
    /\ UNCHANGED <<hReq, hErr, clientConn, status, body, sharedVars, tunnelVars, envVars, relayVars>>

\* cmd.Start(): refused when the context is already done or when the
\* executable cannot be spawned.
HStart(h) ==
    /\ hPc[h] = "start"
    /\ \/ HStartFail(h)
       \/ /\ ~cancelled
          /\ HStartOK(h, h)

KillTargetsSameSource(h) == {p \in Pids : procs[p].src = procs[hCmd[h]].src}

\* The process cmd.Process.Kill() acts on: the handler's own.
KillTargets(h) == {hCmd[h]}

HReturnNoWait(h) ==
    /\ status' = [status EXCEPT ![h] = IF status[h] = 0 THEN StatusOK ELSE status[h]]
    /\ clientConn' = [clientConn EXCEPT ![h] = "closed"]
    /\ hPc' = [hPc EXCEPT ![h] = "done"]
    /\ UNCHANGED <<body, procs, pipe>>

\* The handler returns after io.Copy: the deferred function runs
\* cmd.Process.Kill() and cmd.Wait(), which reaps the process and closes the
\* pipe; a response nothing was written to goes out as an empty 200, and the
\* connection is closed (Connection: close).
HReturn(h) ==
    /\ procs' = [p \in Pids |->
                   IF p = hCmd[h] THEN [procs[p] EXCEPT !.st = "reaped"]
                   ELSE IF p \in KillTargets(h) /\ procs[p].st = "running"
                        THEN [procs[p] EXCEPT !.st = "exited"]
                        ELSE procs[p]]
    /\ pipe' = [pipe EXCEPT ![hCmd[h]] = <<>>]
    /\ status' = [status EXCEPT ![h] = IF status[h] = 0 THEN StatusOK ELSE status[h]]
    /\ clientConn' = [clientConn EXCEPT ![h] = "closed"]
    /\ hPc' = [hPc EXCEPT ![h] = "done"]
    /\ UNCHANGED body

AtEOFOnExit(p) == procs[p].st # "running"

\* stdout.Read returns io.EOF: the write end is closed (the process is gone)
\* and nothing is left in the pipe.
AtEOF(p) == pipe[p] = <<>> /\ procs[p].st # "running"

\* io.Copy(w, stdout), one round: the read blocks while the pipe is empty and
\* the process holds its write end.  A chunk that was read is written to the
\* client (the first write commits status 200).  A write to a client that has
\* gone fails, and so does the read at EOF, once the process has exited and the
\* pipe is drained: io.Copy returns and so does the handler.  A write to a
\* client that keeps its connection but no longer reads blocks: the server
\* sets no write timeout.
HCopy(h) ==
    /\ hPc[h] = "copy"
    /\ LET p == hCmd[h] IN
       \/ /\ pipe[p] # <<>> /\ clientConn[h] = "connected"
          /\ pipe' = [pipe EXCEPT ![p] = Tail(pipe[p])]
          /\ body' = [body EXCEPT ![h] = Append(body[h], <<p, Head(pipe[p])>>)]
          /\ status' = [status EXCEPT ![h] = StatusOK]
          /\ UNCHANGED <<hPc, procs, clientConn>>
       \/ /\ pipe[p] # <<>> /\ clientConn[h] \notin {"connected", "stalled"}
          /\ HReturn(h)
       \/ /\ AtEOF(p)
          /\ HReturn(h)
    /\ UNCHANGED <<hReq, hCmd, hErr, sharedVars, tunnelVars, envVars, relayVars>>

HandlerStep(h) == HStart(h) \/ HCopy(h)

\* exec.CommandContext: once s.ctx is done the process is killed.
CtxKill(p) ==
    /\ cancelled
    /\ procs[p].st = "running"
    /\ procs' = [procs EXCEPT ![p].st = "exited"]
    /\ UNCHANGED <<hPc, hReq, hCmd, hErr, clientConn, status, body, pipe, sharedVars, tunnelVars, envVars, relayVars>>

\* ---- environment of the gateway
\* The transcoding process writes its next chunk to stdout (at most n chunks).
ProcWriteUpTo(p, n) ==
    /\ procs[p].st = "running"
    /\ procs[p].written < n
    /\ pipe' = [pipe EXCEPT ![p] = Append(pipe[p], procs[p].written + 1)]
    /\ procs' = [procs EXCEPT ![p].written = procs[p].written + 1]
    /\ UNCHANGED <<hPc, hReq, hCmd, hErr, clientConn, status, body, sharedVars, tunnelVars, envVars, relayVars>>

ProcWrite(p) == ProcWriteUpTo(p, MaxChunks)

\* The transcoding process exits on its own.
ProcExit(p) ==
    /\ procs[p].st = "running"
    /\ procs' = [procs EXCEPT ![p].st = "exited"]
    /\ UNCHANGED <<hPc, hReq, hCmd, hErr, clientConn, status, body, pipe, sharedVars, tunnelVars, envVars, relayVars>>

\* The HTTP client closes its connection.
ClientDisconnect(h) ==
    /\ clientConn[h] \in {"connected", "stalled"}
    /\ hPc[h] # "done"
    /\ clientConn' = [clientConn EXCEPT ![h] = "gone"]
    /\ UNCHANGED <<hPc, hReq, hCmd, hErr, status, body, procs, pipe, sharedVars, tunnelVars, envVars, relayVars>>

\* The HTTP client keeps its connection open and stops reading from it (its
\* receive window is full).
ClientStall(h) ==
    /\ clientConn[h] = "connected"
    /\ hPc[h] # "done"
    /\ clientConn' = [clientConn EXCEPT ![h] = "stalled"]
    /\ UNCHANGED <<hPc, hReq, hCmd, hErr, status, body, procs, pipe, sharedVars, tunnelVars, envVars, relayVars>>

\* ------------------------------------------------------ tunnel manager
FreeClients == {c \in Clients : conn[c] = "none"}

\* What an operation that depends on the outside world can yield: success
\* only while nothing outside fails, success or failure otherwise.
Outcomes == IF envOK THEN {TRUE} ELSE BOOLEAN

\* The auth methods createSSHTunnel collects: the agent first (net.Dial on
\* SSH_AUTH_SOCK), then the key file (parseSSHKey).
AuthMethods(agent, key) ==
    LET fromAgent == IF agent THEN <<"agent">> ELSE <<>>
    IN  IF key THEN Append(fromAgent, "key") ELSE fromAgent

\* A caller enters createSSHTunnel.
CallCreateSSHTunnel(k) ==
    /\ ctPc' = [ctPc EXCEPT ![k] = "creds"]
    /\ ctClient' = [ctClient EXCEPT ![k] = 0]
    /\ ctAuth' = [ctAuth EXCEPT ![k] = <<>>]
    /\ ctIdx' = [ctIdx EXCEPT ![k] = 0]
    /\ ctLsn' = [ctLsn EXCEPT ![k] = 0]
    /\ ctRet' = [ctRet EXCEPT ![k] = "none"]

\* createSSHTunnel returns r to its caller.
ReturnCreateSSHTunnel(k, r) ==
    /\ ctPc' = [ctPc EXCEPT ![k] = "idle"]
    /\ ctRet' = [ctRet EXCEPT ![k] = r]
    /\ ctClient' = [ctClient EXCEPT ![k] = 0]
    /\ ctIdx' = [ctIdx EXCEPT ![k] = 0]
    /\ ctLsn' = [ctLsn EXCEPT ![k] = 0]

\* net.Dial("unix", SSH_AUTH_SOCK): the results it can have.
AgentOutcomes == IF agentCfg THEN Outcomes ELSE {FALSE}

\* parseSSHKey without a prompt: the results it can have on a key file that is
\* not protected, or protected with config.SSHPassphrase set.
KeyOutcomes ==
    CASE keyFile = "plain" -> Outcomes
      [] keyFile = "protected" /\ passphrase = "right" -> Outcomes
      [] OTHER -> {FALSE}

\* getPassphrase goes to the terminal: the key is protected and the
\* configuration holds no passphrase.
NeedsPrompt == keyFile = "protected" /\ passphrase = "none"

NoAuthMethodsKeyFailed(auth) == \A i \in 1..Len(auth) : auth[i] # "key"

\* len(authMethods) == 0, tested when the key file has failed.
NoAuthMethods(auth) == Len(auth) = 0

\* The end of credential resolution with the methods collected: without any
\* the call returns the error, otherwise it goes on to dial.
CredsDone(k, auth) ==
    /\ ctAuth' = [ctAuth EXCEPT ![k] = auth]
    /\ IF NoAuthMethods(auth)
       THEN ReturnCreateSSHTunnel(k, "auth")
       ELSE /\ ctPc' = [ctPc EXCEPT ![k] = "dial"]
            /\ UNCHANGED <<ctRet, ctClient, ctIdx, ctLsn>>

\* Credential resolution: the agent, then the key file; a protected key
\* without a configured passphrase makes parseSSHKey prompt on the terminal
\* and wait in term.ReadPassword.
CTCreds(k) ==
    /\ ctPc[k] = "creds"
    /\ \E agent \in AgentOutcomes :
         IF NeedsPrompt
         THEN /\ prompts < MaxPrompts
              /\ prompts' = prompts + 1
              /\ ctAuth' = [ctAuth EXCEPT ![k] = AuthMethods(agent, FALSE)]
              /\ ctPc' = [ctPc EXCEPT ![k] = "prompt"]
              /\ UNCHANGED <<ctRet, ctClient, ctIdx, ctLsn>>
         ELSE /\ \E key \in KeyOutcomes : CredsDone(k, AuthMethods(agent, key))
              /\ UNCHANGED prompts
    /\ UNCHANGED <<sharedVars, conn, lsn, alPc, startPc, startResult,
                   monPc, fbPc, fbRet, sysProc, sysChild, watcherPc, stopPc,
                   envOK, fwd, agentCfg, keyFile, passphrase, relayVars, streamVars>>

\* term.ReadPassword returns what the user typed: with the right passphrase
\* the key is parsed and added; with a wrong one, or on a read error,
\* parseSSHKey fails.
PromptAnswer(k) ==
    /\ ctPc[k] = "prompt"
    /\ \E right \in BOOLEAN :
         CredsDone(k, IF right THEN Append(ctAuth[k], "key") ELSE ctAuth[k])
    /\ UNCHANGED <<sharedVars, conn, lsn, alPc, startPc, startResult,
                   monPc, fbPc, fbRet, sysProc, sysChild, watcherPc, stopPc,
                   envVars, relayVars, streamVars>>

\* ssh.Dial: a new open client, or the dial error returned to the caller.
CTDial(k) ==
    /\ ctPc[k] = "dial"
    /\ \E up \in Outcomes :
         IF up
         THEN /\ FreeClients # {}
              /\ LET c == CHOOSE x \in FreeClients : \A y \in FreeClients : x <= y IN
                 /\ conn' = [conn EXCEPT ![c] = "open"]
                 /\ ctClient' = [ctClient EXCEPT ![k] = c]
              /\ ctPc' = [ctPc EXCEPT ![k] = "assign"]
              /\ UNCHANGED <<ctRet, ctIdx, ctLsn>>
         ELSE /\ ReturnCreateSSHTunnel(k, "dial")
              /\ UNCHANGED conn
    /\ ctAuth' = [ctAuth EXCEPT ![k] = <<>>]
    /\ UNCHANGED <<sharedVars, lsn, alPc, startPc, startResult,
                   monPc, fbPc, fbRet, sysProc, sysChild, watcherPc, stopPc,
                   envVars, relayVars, streamVars>>

\* s.sshClient = client
CTAssign(k) ==
    /\ ctPc[k] = "assign"
    /\ sshClient' = ctClient[k]
    /\ ctPc' = [ctPc EXCEPT ![k] = "listen"]
    /\ ctIdx' = [ctIdx EXCEPT ![k] = 1]
    /\ UNCHANGED <<cancelled, httpServer, wg, conn, lsn, alPc, startPc, startResult, ctClient, ctAuth,
                   ctLsn, ctRet, monPc, fbPc, fbRet, sysProc, sysChild, watcherPc,
                   stopPc, envVars, relayVars, streamVars>>

NextSpellingSkip(i) == i + 2

\* for i, remoteAddr := range remoteAddresses: the element after element i.
NextSpelling(i) == i + 1

\* One iteration of the loop over remoteAddresses: client.Listen on spelling
\* ctIdx; the first spelling the remote host grants gives the listener and
\* ends the loop (break), a refusal moves on to the next spelling (continue).
CTListen(k) ==
    /\ ctPc[k] = "listen"
    /\ LET c == ctClient[k]
           i == ctIdx[k]
       IN  \E granted \in Outcomes :
             IF conn[c] = "open" /\ granted
             THEN /\ lsn' = [lsn EXCEPT ![c] = "open"]
                  /\ ctLsn' = [ctLsn EXCEPT ![k] = i]
                  /\ ctPc' = [ctPc EXCEPT ![k] = "after"]
                  /\ UNCHANGED ctIdx
             ELSE /\ IF i < NSpell
                     THEN ctIdx' = [ctIdx EXCEPT ![k] = NextSpelling(i)] /\ UNCHANGED ctPc
                     ELSE ctPc' = [ctPc EXCEPT ![k] = "after"] /\ UNCHANGED ctIdx
                  /\ UNCHANGED <<lsn, ctLsn>>
    /\ UNCHANGED <<sharedVars, conn, alPc, startPc, startResult, ctClient, ctAuth, ctRet,
                   monPc, fbPc, fbRet, sysProc, sysChild, watcherPc, stopPc,
                   envVars, relayVars, streamVars>>

\* What createSSHTunnel does with the client when no spelling was granted
\* before it returns the error: nothing (the client stays open and s.sshClient
\* keeps referring to it).
BindFailCleanup(k) ==
    UNCHANGED <<conn, sshClient>>

\* After the loop: listener == nil returns the remote-bind error; otherwise
\* s.wg.Add(1), the accept loop goroutine is started, and nil is returned.
CTAfter(k) ==
    /\ ctPc[k] = "after"
    /\ IF ctLsn[k] = 0
       THEN /\ ReturnCreateSSHTunnel(k, "bind")
            /\ BindFailCleanup(k)
            /\ UNCHANGED <<wg, alPc>>
       ELSE /\ wg' = wg + 1
            /\ alPc' = [alPc EXCEPT ![ctClient[k]] = "select"]
            /\ ReturnCreateSSHTunnel(k, "ok")
            /\ UNCHANGED <<conn, sshClient>>
    /\ UNCHANGED <<cancelled, httpServer, lsn, startPc, startResult, ctAuth,
                   monPc, fbPc, fbRet, sysProc, sysChild, watcherPc, stopPc,
                   envVars, relayVars, streamVars>>

CreateSSHTunnelStep(k) == CTCreds(k) \/ CTDial(k) \/ CTAssign(k) \/ CTListen(k) \/ CTAfter(k)

\* ---- the accept loop goroutine of one listener
\* select: a done context ends the loop (deferred listener.Close, wg.Done);
\* otherwise the default branch calls Accept.
ALSelect(c) ==
    /\ alPc[c] = "select"
    /\ IF cancelled
       THEN /\ alPc' = [alPc EXCEPT ![c] = "exited"]
            /\ lsn' = [lsn EXCEPT ![c] = "closed"]
            /\ wg' = wg - 1
       ELSE /\ alPc' = [alPc EXCEPT ![c] = "accept"]
            /\ UNCHANGED <<lsn, wg>>
    /\ UNCHANGED <<cancelled, httpServer, sshClient, conn, startPc, startResult, ctPc, ctClient, ctAuth,
                   ctIdx, ctLsn, ctRet, monPc, fbPc, fbRet, sysProc, sysChild,
                   watcherPc, stopPc, envVars, relayVars, streamVars>>

\* listener.Accept() returns an error (its client is closed): continue.
ALAcceptErr(c) ==
    /\ alPc[c] = "accept"
    /\ conn[c] = "closed"
    /\ alPc' = [alPc EXCEPT ![c] = "select"]
    /\ UNCHANGED <<sharedVars, conn, lsn, startPc, startResult, ctPc, ctClient, ctAuth,
                   ctIdx, ctLsn, ctRet, monPc, fbPc, fbRet, sysProc, sysChild,
                   watcherPc, stopPc, envVars, relayVars, streamVars>>

\* ---- createSystemSSHTunnel, the fallback transport
\* sshCmd.Start(): refused when the context is done or ssh cannot be spawned.
FBStart ==
    /\ fbPc = "start"
    /\ \/ /\ fbRet' = "err"
          /\ fbPc' = "idle"
          /\ UNCHANGED <<sysProc, sysChild>>
       \/ /\ ~cancelled
          /\ sysProc' = "set"
          /\ sysChild' = "running"
          /\ fbPc' = "sleep"
          /\ UNCHANGED fbRet
    /\ UNCHANGED <<sharedVars, conn, lsn, alPc, startPc, startResult, ctPc, ctClient, ctAuth,
                   ctIdx, ctLsn, ctRet, monPc, watcherPc, stopPc, envVars, relayVars, streamVars>>

\* time.Sleep(3 * time.Second)
FBSleep ==
    /\ fbPc = "sleep"
    /\ fbPc' = "check"
    /\ UNCHANGED <<sharedVars, conn, lsn, alPc, startPc, startResult, ctPc, ctClient, ctAuth,
                   ctIdx, ctLsn, ctRet, monPc, fbRet, sysProc, sysChild, watcherPc,
                   stopPc, envVars, relayVars, streamVars>>

\* The test createSystemSSHTunnel makes after the wait: sshCmd.Process != nil.
StillRunningCheck == sysProc # "nil"

\* If the test passes: s.wg.Add(1), the goroutine in sshCmd.Wait() is started,
\* nil is returned; otherwise the error.
FBCheck ==
    /\ fbPc = "check"
    /\ IF StillRunningCheck
       THEN /\ wg' = wg + 1
            /\ watcherPc' = "waiting"
            /\ fbRet' = "ok"
       ELSE /\ fbRet' = "err"
            /\ UNCHANGED <<wg, watcherPc>>
    /\ fbPc' = "idle"
    /\ UNCHANGED <<cancelled, httpServer, sshClient, conn, lsn, alPc, startPc, startResult, ctPc,
                   ctClient, ctAuth, ctIdx, ctLsn, ctRet, monPc, sysProc, sysChild, stopPc,
                   envVars, relayVars, streamVars>>

\* The goroutine in sshCmd.Wait(): returns once the child has exited (wg.Done).
WatcherWait ==
    /\ watcherPc = "waiting"
    /\ sysChild = "exited"
    /\ sysChild' = "reaped"
    /\ watcherPc' = "done"
    /\ wg' = wg - 1
    /\ UNCHANGED <<cancelled, httpServer, sshClient, conn, lsn, alPc, startPc, startResult, ctPc,
                   ctClient, ctAuth, ctIdx, ctLsn, ctRet, monPc, fbPc, fbRet, sysProc, stopPc,
                   envVars, relayVars, streamVars>>

\* exec.CommandContext: once s.ctx is done the ssh child is killed.
CtxKillChild ==
    /\ cancelled
    /\ sysChild = "running"
    /\ sysChild' = "exited"
    /\ fwd' = IF fwd = "up" THEN "lost" ELSE fwd
    /\ UNCHANGED <<sharedVars, conn, lsn, alPc, startPc, startResult, ctPc, ctClient, ctAuth,
                   ctIdx, ctLsn, ctRet, monPc, fbPc, fbRet, sysProc, watcherPc,
                   stopPc, envOK, credVars, relayVars, streamVars>>

\* The ssh child has connected and the remote host has granted its -R forward.
ChildForward ==
    /\ sysChild = "running"
    /\ fwd = "none"
    /\ TRUE \in Outcomes
    /\ fwd' = "up"
    /\ UNCHANGED <<sharedVars, tunnelVars, envOK, credVars, relayVars, streamVars>>

\* The ssh child exits on its own (authentication or forward failure, lost link).
ChildExit ==
    /\ sysChild = "running"
    /\ sysChild' = "exited"
    /\ fwd' = IF fwd = "up" THEN "lost" ELSE fwd
    /\ UNCHANGED <<sharedVars, conn, lsn, alPc, startPc, startResult, ctPc, ctClient, ctAuth,
                   ctIdx, ctLsn, ctRet, monPc, fbPc, fbRet, sysProc, watcherPc,
                   stopPc, envOK, credVars, relayVars, streamVars>>


\* ---- monitorSSHTunnel
\* select: a done context ends the monitor (wg.Done in its goroutine); a tick
\* of the 10 s ticker runs the keepalive branch.  Both may be ready.
MonSelect ==
    /\ monPc = "select"
    /\ \/ /\ cancelled
          /\ monPc' = "done"
          /\ wg' = wg - 1
       \/ /\ monPc' = "tick"
          /\ UNCHANGED wg
    /\ UNCHANGED <<cancelled, httpServer, sshClient, conn, lsn, alPc, startPc, startResult, ctPc,
                   ctClient, ctAuth, ctIdx, ctLsn, ctRet, fbPc, fbRet, sysProc, sysChild,
                   watcherPc, stopPc, envVars, relayVars, streamVars>>

HandleSetUnchecked == TRUE

\* if s.sshClient != nil
HandleSet == sshClient # 0

\* if s.sshClient != nil: SendRequest("keepalive@openssh.com", true, nil) is
\* sent and its reply awaited; a nil handle skips the tick.
MonTick ==
    /\ monPc = "tick"
    /\ IF HandleSet
       THEN monPc' = "keepalive"
       ELSE monPc' = "select"
    /\ UNCHANGED <<sharedVars, conn, lsn, alPc, startPc, startResult, ctPc,
                   ctClient, ctAuth, ctIdx, ctLsn, ctRet, fbPc, fbRet, sysProc, sysChild,
                   watcherPc, stopPc, envVars, relayVars, streamVars>>

\* SendRequest returns on a client that is still open: the remote host has
\* answered the keepalive, or the request has failed (the link is found broken).
KeepaliveAnswer ==
    /\ monPc = "keepalive"
    /\ conn[sshClient] = "open"
    /\ \E ok \in Outcomes : monPc' = IF ok THEN "select" ELSE "close"
    /\ UNCHANGED <<sharedVars, conn, lsn, alPc, startPc, startResult, ctPc,
                   ctClient, ctAuth, ctIdx, ctLsn, ctRet, fbPc, fbRet, sysProc, sysChild,
                   watcherPc, stopPc, envVars, relayVars, streamVars>>

\* SendRequest on a closed client returns an error.
KeepaliveClosed ==
    /\ monPc = "keepalive"
    /\ conn[sshClient] = "closed"
    /\ monPc' = "close"
    /\ UNCHANGED <<sharedVars, conn, lsn, alPc, startPc, startResult, ctPc,
                   ctClient, ctAuth, ctIdx, ctLsn, ctRet, fbPc, fbRet, sysProc, sysChild,
                   watcherPc, stopPc, envVars, relayVars, streamVars>>

\* err != nil: s.sshClient.Close()
MonClose ==
    /\ monPc = "close"
    /\ conn' = [conn EXCEPT ![sshClient] = "closed"]
    /\ monPc' = "sleep"
    /\ UNCHANGED <<sharedVars, lsn, alPc, startPc, startResult, ctPc,
                   ctClient, ctAuth, ctIdx, ctLsn, ctRet, fbPc, fbRet, sysProc, sysChild,
                   watcherPc, stopPc, envVars, relayVars, streamVars>>

\* time.Sleep(5 * time.Second), then the call of createSSHTunnel.
MonSleep ==
    /\ monPc = "sleep"
    /\ monPc' = "reconnect"
    /\ CallCreateSSHTunnel("monitor")
    /\ UNCHANGED <<sharedVars, conn, lsn, alPc, startPc, startResult,
                   fbPc, fbRet, sysProc, sysChild,
                   watcherPc, stopPc, envVars, relayVars, streamVars>>

\* createSSHTunnel has returned: the result is logged, the loop goes on.
MonReturn ==
    /\ monPc = "reconnect"
    /\ ctPc["monitor"] = "idle"
    /\ ctRet["monitor"] # "none"
    /\ monPc' = "select"
    /\ ctRet' = [ctRet EXCEPT !["monitor"] = "none"]
    /\ UNCHANGED <<sharedVars, conn, lsn, alPc, startPc, startResult, ctPc,
                   ctClient, ctAuth, ctIdx, ctLsn, fbPc, fbRet, sysProc, sysChild,
                   watcherPc, stopPc, envVars, relayVars, streamVars>>

MonitorStep == MonSelect \/ MonTick \/ KeepaliveClosed \/ MonClose \/ MonSleep \/ MonReturn

\* ---- Start
\* checkFFmpeg and testCameras: either check failing ends Start.
StartChecks ==
    /\ startPc = "init"
    /\ \E ok \in BOOLEAN :
         IF ok THEN startPc' = "http" /\ UNCHANGED startResult
               ELSE startPc' = "done" /\ startResult' = "precheck"
    /\ UNCHANGED <<sharedVars, conn, lsn, alPc, ctPc, ctClient, ctAuth, ctIdx, ctLsn, ctRet,
                   monPc, fbPc, fbRet, sysProc, sysChild, watcherPc, stopPc,
                   envVars, relayVars, streamVars>>

\* startHTTPServer, the 2 s wait and testLocalHTTPServer; then the call of
\* createSSHTunnel.
StartHTTP ==
    /\ startPc = "http"
    /\ httpServer' = "serving"
    /\ \E ok \in BOOLEAN :
         IF ok THEN /\ startPc' = "primary"
                    /\ CallCreateSSHTunnel("start")
                    /\ UNCHANGED startResult
               ELSE /\ startPc' = "done"
                    /\ startResult' = "precheck"
                    /\ UNCHANGED <<ctPc, ctClient, ctAuth, ctIdx, ctLsn, ctRet>>
    /\ UNCHANGED <<cancelled, sshClient, wg, conn, lsn, alPc,
                   monPc, fbPc, fbRet, sysProc, sysChild, watcherPc, stopPc,
                   envVars, relayVars, streamVars>>

PrimaryReturnedAsync == TRUE

\* `if err := s.createSSHTunnel(); err != nil`: the call is synchronous, Start
\* goes on only when it has returned.
PrimaryReturned ==
    /\ ctPc["start"] = "idle"
    /\ ctRet["start"] # "none"

\* createSSHTunnel has returned: on an error createSystemSSHTunnel is called.
StartPrimaryReturn ==
    /\ startPc = "primary"
    /\ PrimaryReturned
    /\ IF ctRet["start"] = "ok"
       THEN startPc' = "monitor" /\ UNCHANGED <<fbPc, fbRet>>
       ELSE startPc' = "fallback" /\ fbPc' = "start" /\ fbRet' = "none"
    /\ UNCHANGED <<sharedVars, conn, lsn, alPc, startResult, ctPc, ctClient, ctAuth, ctIdx, ctLsn,
                   ctRet, monPc, sysProc, sysChild, watcherPc, stopPc,
                   envVars, relayVars, streamVars>>

\* createSystemSSHTunnel has returned: its error is the fatal startup failure.
StartFallbackReturn ==
    /\ startPc = "fallback"
    /\ fbPc = "idle"
    /\ fbRet # "none"
    /\ IF fbRet = "ok"
       THEN startPc' = "monitor" /\ UNCHANGED startResult
       ELSE startPc' = "done" /\ startResult' = "fatal"
    /\ UNCHANGED <<sharedVars, conn, lsn, alPc, ctPc, ctClient, ctAuth, ctIdx, ctLsn, ctRet,
                   monPc, fbPc, fbRet, sysProc, sysChild, watcherPc, stopPc,
                   envVars, relayVars, streamVars>>

\* s.wg.Add(1), the monitor goroutine is started, the system is reported ready.
StartMonitor ==
    /\ startPc = "monitor"
    /\ wg' = wg + 1
    /\ monPc' = "select"
    /\ startPc' = "done"
    /\ startResult' = "ready"
    /\ UNCHANGED <<cancelled, httpServer, sshClient, conn, lsn, alPc, ctPc, ctClient, ctAuth, ctIdx,
                   ctLsn, ctRet, fbPc, fbRet, sysProc, sysChild, watcherPc, stopPc,
                   envVars, relayVars, streamVars>>

StartStep == StartChecks \/ StartHTTP \/ StartPrimaryReturn \/ StartFallbackReturn \/ StartMonitor

\* ---- Stop
\* A call of Stop begins with s.cancel().  (Calls are numbered in the order
\* in which they begin.)
StopCancel(k) ==
    /\ stopPc[k] = "idle"
    /\ \A j \in Stoppers : j < k => stopPc[j] # "idle"
    /\ cancelled' = TRUE
    /\ stopPc' = [stopPc EXCEPT ![k] = "shutdown"]
    /\ UNCHANGED <<httpServer, sshClient, wg, conn, lsn, alPc, startPc, startResult, ctPc,
                   ctClient, ctAuth, ctIdx, ctLsn, ctRet, monPc, fbPc, fbRet, sysProc,
                   sysChild, watcherPc, envVars, relayVars, streamVars>>

\* if s.httpServer != nil: s.httpServer.Shutdown(ctx), at most 10 s.
StopShutdown(k) ==
    /\ stopPc[k] = "shutdown"
    /\ httpServer' = IF httpServer # "nil" THEN "shutdown" ELSE httpServer
    /\ stopPc' = [stopPc EXCEPT ![k] = "close"]
    /\ UNCHANGED <<cancelled, sshClient, wg, conn, lsn, alPc, startPc, startResult, ctPc,
                   ctClient, ctAuth, ctIdx, ctLsn, ctRet, monPc, fbPc, fbRet, sysProc,
                   sysChild, watcherPc, envVars, relayVars, streamVars>>

\* if s.sshClient != nil: s.sshClient.Close()
StopClose(k) ==
    /\ stopPc[k] = "close"
    /\ conn' = IF sshClient # 0 THEN [conn EXCEPT ![sshClient] = "closed"] ELSE conn
    /\ stopPc' = [stopPc EXCEPT ![k] = "wait"]
    /\ UNCHANGED <<sharedVars, lsn, alPc, startPc, startResult, ctPc,
                   ctClient, ctAuth, ctIdx, ctLsn, ctRet, monPc, fbPc, fbRet, sysProc,
                   sysChild, watcherPc, envVars, relayVars, streamVars>>

\* s.wg.Wait() returns once the counter is zero; Stop returns.
StopWait(k) ==
    /\ stopPc[k] = "wait"
    /\ wg = 0
    /\ stopPc' = [stopPc EXCEPT ![k] = "done"]
    /\ UNCHANGED <<sharedVars, conn, lsn, alPc, startPc, startResult, ctPc,
                   ctClient, ctAuth, ctIdx, ctLsn, ctRet, monPc, fbPc, fbRet, sysProc,
                   sysChild, watcherPc, envVars, relayVars, streamVars>>

StopStep(k) == StopCancel(k) \/ StopShutdown(k) \/ StopClose(k) \/ StopWait(k)

\* ---- environment of the tunnel manager
\* The outside world starts to fail (the host is unreachable or refuses, the
\* credentials are unusable), or stops failing.
EnvChange ==
    /\ envOK' = ~envOK
    /\ UNCHANGED <<fwd, credVars, sharedVars, tunnelVars, streamVars, relayVars>>

\* ---- the accept loop hands a connection to a relay
FreeRelays == {r \in Relays : rPc[r] = "none"}

\* listener.Accept() returns a connection a remote viewer has opened:
\* go s.handleTunnelConnection(conn, localAddr), and the loop goes on.
ALAcceptConn(c) ==
    /\ alPc[c] = "accept"
    /\ conn[c] = "open"
    /\ lsn[c] = "open"
    /\ FreeRelays # {}
    /\ LET r == CHOOSE x \in FreeRelays : \A y \in FreeRelays : x <= y IN
       /\ rPc' = [rPc EXCEPT ![r] = "dial"]
       /\ rClient' = [rClient EXCEPT ![r] = c]
       /\ rRemote' = [rRemote EXCEPT ![r] = "open"]
    /\ alPc' = [alPc EXCEPT ![c] = "select"]
    /\ UNCHANGED <<sharedVars, conn, lsn, startPc, startResult, ctPc, ctClient, ctAuth,
                   ctIdx, ctLsn, ctRet, monPc, fbPc, fbRet, sysProc, sysChild,
                   watcherPc, stopPc, envVars, streamVars,
                   rErr, rLocal, rCopy, rDone>>

\* ---- handleTunnelConnection
\* The results net.DialTimeout("tcp", localAddr, 10 s) can have: it cannot
\* succeed unless the HTTP server is listening.
LocalDialOutcomes == IF httpServer = "serving" THEN BOOLEAN ELSE {FALSE}

\* The local dial.  On an error the relay returns (deferred remoteConn.Close());
\* otherwise the channel done is made and both copy goroutines are started.
RelayDial(r) ==
    /\ rPc[r] = "dial"
    /\ \E ok \in LocalDialOutcomes :
         IF ok
         THEN /\ rLocal' = [rLocal EXCEPT ![r] = "open"]
              /\ rCopy' = [rCopy EXCEPT ![r] = [d \in Directions |-> "running"]]
              /\ rPc' = [rPc EXCEPT ![r] = "wait"]
              /\ UNCHANGED <<rErr, rRemote>>
         ELSE /\ rErr' = [rErr EXCEPT ![r] = "dial"]
              /\ rRemote' = [rRemote EXCEPT ![r] = "closed"]
              /\ rPc' = [rPc EXCEPT ![r] = "returned"]
              /\ UNCHANGED <<rLocal, rCopy>>
    /\ UNCHANGED <<rClient, rDone, sharedVars, tunnelVars, envVars, streamVars>>

\* The endpoint a copy direction reads from, and the one it writes to.
CopySrc(r, d) == IF d = "in" THEN rRemote[r] ELSE rLocal[r]
CopyDst(r, d) == IF d = "in" THEN rLocal[r] ELSE rRemote[r]

\* io.Copy of one direction returns, at EOF of its source or on an error (an
\* endpoint closed, the ssh client of the accepted connection closed), and the
\* goroutine sends the result to done (buffered: the send never blocks).
CopyFinish(r, d) ==
    /\ rCopy[r][d] = "running"
    /\ \/ CopySrc(r, d) # "open"
       \/ CopyDst(r, d) = "closed"
       \/ conn[rClient[r]] = "closed"
    /\ rCopy' = [rCopy EXCEPT ![r][d] = "finished"]
    /\ rDone' = [rDone EXCEPT ![r] = Append(rDone[r], d)]
    /\ UNCHANGED <<rPc, rClient, rErr, rRemote, rLocal, sharedVars, tunnelVars, envVars, streamVars>>

DoneReadyAlways(r) == TRUE

\* err = <-done can proceed: a result is buffered in the channel.
DoneReady(r) == rDone[r] # <<>>

DeferredCloseRemoteOnly(r) ==
    /\ rRemote' = [rRemote EXCEPT ![r] = "closed"]
    /\ UNCHANGED rLocal

DeferredCloseEveryRelay(r) ==
    /\ rLocal' = [q \in Relays |-> IF rLocal[q] = "none" THEN "none" ELSE "closed"]
    /\ rRemote' = [q \in Relays |-> IF rRemote[q] = "none" THEN "none" ELSE "closed"]

\* The deferred calls of a relay that got past the dial, run at its return:
\* localConn.Close(), then remoteConn.Close().
DeferredClose(r) ==
    /\ rLocal' = [rLocal EXCEPT ![r] = "closed"]
    /\ rRemote' = [rRemote EXCEPT ![r] = "closed"]

\* The single receive from done, the log line, and the return: the deferred
\* localConn.Close() and remoteConn.Close() run.
RelayWait(r) ==
    /\ rPc[r] = "wait"
    /\ DoneReady(r)
    /\ rDone' = [rDone EXCEPT ![r] = SubSeq(rDone[r], 2, Len(rDone[r]))]
    /\ DeferredClose(r)
    /\ rPc' = [rPc EXCEPT ![r] = "returned"]
    /\ UNCHANGED <<rClient, rErr, rCopy, sharedVars, tunnelVars, envVars, streamVars>>

RelayStep(r) == RelayDial(r) \/ RelayWait(r) \/ \E d \in Directions : CopyFinish(r, d)

\* ---- environment of the relay
\* The remote viewer finishes sending (what remoteConn reads next is EOF).
ViewerEOF(r) ==
    /\ rRemote[r] = "open"
    /\ rPc[r] = "wait"
    /\ rRemote' = [rRemote EXCEPT ![r] = "eof"]
    /\ UNCHANGED <<rPc, rClient, rErr, rLocal, rCopy, rDone, sharedVars, tunnelVars, envVars, streamVars>>

\* The local HTTP server finishes its response and closes the connection.
LocalEOF(r) ==
    /\ rLocal[r] = "open"
    /\ rLocal' = [rLocal EXCEPT ![r] = "eof"]
    /\ UNCHANGED <<rPc, rClient, rErr, rRemote, rCopy, rDone, sharedVars, tunnelVars, envVars, streamVars>>

\* ------------------------------------------------------ specifications
\* The tunnel manager with Start and Stop; no stream request arrives.
NextTunnel ==
    \/ StartStep
    \/ \E k \in Callers : CreateSSHTunnelStep(k)
    \/ \E c \in Clients : ALSelect(c) \/ ALAcceptErr(c)
    \/ FBStart \/ FBSleep \/ FBCheck \/ WatcherWait \/ CtxKillChild \/ ChildExit \/ ChildForward
    \/ MonitorStep
    \/ KeepaliveAnswer
    \/ \E k \in Stoppers : StopStep(k)
    \/ EnvChange

SpecTunnel == Init /\ [][NextTunnel]_vars

\* The state in which Start has brought the HTTP server up and has entered
\* createSSHTunnel.
InitServing ==
    /\ InitStreams
    /\ InitRelays
    /\ envOK = TRUE
    /\ fwd = "none"
    /\ InitCreds
    /\ cancelled = FALSE /\ sshClient = 0 /\ wg = 0
    /\ httpServer = "serving"
    /\ conn = [c \in Clients |-> "none"]
    /\ lsn = [c \in Clients |-> "none"]
    /\ alPc = [c \in Clients |-> "none"]
    /\ startPc = "primary"
    /\ startResult = "none"
    /\ ctPc = [k \in Callers |-> IF k = "start" THEN "creds" ELSE "idle"]
    /\ ctClient = [k \in Callers |-> 0]
    /\ ctAuth = [k \in Callers |-> <<>>]
    /\ ctIdx = [k \in Callers |-> 0]
    /\ ctLsn = [k \in Callers |-> 0]
    /\ ctRet = [k \in Callers |-> "none"]
    /\ monPc = "none"
    /\ fbPc = "idle" /\ fbRet = "none" /\ sysProc = "nil" /\ sysChild = "none"
    /\ watcherPc = "none"
    /\ stopPc = [k \in Stoppers |-> "idle"]

\* The transcode gateway behind the serving HTTP server, with the steps of one
\* call of Stop that a stream session can observe (the cancellation and the
\* HTTP shutdown); the tunnel is still being connected.
NextStream ==
    \/ \E h \in Handlers, id \in RequestIds : HRequest(h, id)
    \/ \E h \in Handlers : HandlerStep(h)
    \/ \E p \in Pids : CtxKill(p) \/ ProcWrite(p) \/ ProcExit(p)
    \/ \E h \in Handlers : ClientDisconnect(h)
    \/ StopCancel(1) \/ StopShutdown(1)

SpecStream == InitServing /\ [][NextStream]_vars

\* The scheduler runs every goroutine that can take a step: each handler, and
\* the kill os/exec performs when the context is done.  Nothing is assumed of
\* the clients and the transcoding processes.
FairStream ==
    /\ SpecStream
    /\ \A h \in Handlers : WF_vars(HandlerStep(h))
    /\ \A p \in Pids : WF_vars(CtxKill(p))

\* One stream session whose process writes a burst of several chunks.
NextDrain ==
    \/ \E id \in RequestIds : HRequest(1, id)
    \/ HandlerStep(1)
    \/ CtxKill(1) \/ ProcWriteUpTo(1, MaxBurst) \/ ProcExit(1)
    \/ ClientDisconnect(1)
    \/ StopCancel(1) \/ StopShutdown(1)

SpecDrain == InitServing /\ [][NextDrain]_vars

FairDrain ==
    /\ SpecDrain
    /\ WF_vars(HandlerStep(1))
    /\ WF_vars(CtxKill(1))

\* The gateway with clients that may also stop reading.
NextStall ==
    \/ NextStream
    \/ \E h \in Handlers : ClientStall(h)

SpecStall == InitServing /\ [][NextStall]_vars

FairStall ==
    /\ SpecStall
    /\ \A h \in Handlers : WF_vars(HandlerStep(h))
    /\ \A p \in Pids : WF_vars(CtxKill(p))

\* The scheduler runs every goroutine of the program that can take a step,
\* os/exec kills the child once the context is done, and a keepalive request
\* on an open client returns.  Nothing is assumed of the callers of Stop, of
\* the ssh child or of the outside world.
FairTunnel ==
    /\ SpecTunnel
    /\ WF_vars(StartStep)
    /\ \A k \in Callers : WF_vars(CreateSSHTunnelStep(k))
    /\ \A c \in Clients : WF_vars(ALSelect(c) \/ ALAcceptErr(c))
    /\ WF_vars(FBStart \/ FBSleep \/ FBCheck)
    /\ WF_vars(WatcherWait)
    /\ WF_vars(CtxKillChild)
    /\ WF_vars(MonitorStep)
    /\ WF_vars(KeepaliveAnswer)

\* The state in which Start has returned with the tunnel on the primary
\* transport: the first client is open with its remote listener, the accept
\* loop and the monitor are running.
InitActive ==
    /\ InitStreams
    /\ InitRelays
    /\ envOK = TRUE
    /\ fwd = "none"
    /\ InitCreds
    /\ cancelled = FALSE /\ sshClient = 1 /\ wg = 2
    /\ httpServer = "serving"
    /\ conn = [c \in Clients |-> IF c = 1 THEN "open" ELSE "none"]
    /\ lsn = [c \in Clients |-> IF c = 1 THEN "open" ELSE "none"]
    /\ alPc = [c \in Clients |-> IF c = 1 THEN "select" ELSE "none"]
    /\ startPc = "done"
    /\ startResult = "ready"
    /\ ctPc = [k \in Callers |-> "idle"]
    /\ ctClient = [k \in Callers |-> 0]
    /\ ctAuth = [k \in Callers |-> <<>>]
    /\ ctIdx = [k \in Callers |-> 0]
    /\ ctLsn = [k \in Callers |-> 0]
    /\ ctRet = [k \in Callers |-> IF k = "start" THEN "ok" ELSE "none"]
    /\ monPc = "select"
    /\ fbPc = "idle" /\ fbRet = "none" /\ sysProc = "nil" /\ sysChild = "none"
    /\ watcherPc = "none"
    /\ stopPc = [k \in Stoppers |-> "idle"]

\* The accept loop of an established tunnel and the relays it starts, with the
\* steps of one call of Stop a relay can observe.
NextRelay ==
    \/ \E c \in Clients : ALSelect(c) \/ ALAcceptErr(c) \/ ALAcceptConn(c)
    \/ \E r \in Relays : RelayStep(r)
    \/ \E r \in Relays : ViewerEOF(r) \/ LocalEOF(r)
    \/ StopCancel(1) \/ StopShutdown(1) \/ StopClose(1)

SpecRelay == InitActive /\ [][NextRelay]_vars

\* The running system after Start has returned ready on the primary
\* transport: the monitor, its reconnects, the accept loops and the calls of
\* Stop; no viewer connects.
NextRunning ==
    \/ CreateSSHTunnelStep("monitor")
    \/ \E c \in Clients : ALSelect(c) \/ ALAcceptErr(c)
    \/ MonitorStep
    \/ KeepaliveAnswer
    \/ \E k \in Stoppers : StopStep(k)
    \/ EnvChange

SpecRunning == InitActive /\ [][NextRunning]_vars

FairRunning ==
    /\ SpecRunning
    /\ WF_vars(CreateSSHTunnelStep("monitor"))
    /\ \A c \in Clients : WF_vars(ALSelect(c) \/ ALAcceptErr(c))
    /\ WF_vars(MonitorStep)
    /\ WF_vars(KeepaliveAnswer)

\* The configurations credential resolution can meet.
KeyFiles == {"plain", "protected", "unusable"}
Passphrases == {"none", "right", "wrong"}

\* Construction under any configuration of agent, key file and passphrase.
InitConnect ==
    /\ InitShared /\ InitStreams /\ InitTunnel /\ InitRelays
    /\ envOK \in BOOLEAN
    /\ fwd = "none"
    /\ agentCfg \in BOOLEAN
    /\ keyFile \in KeyFiles
    /\ passphrase \in Passphrases
    /\ prompts = 0

\* Start up to its return, with the connect sequence, the user at the
\* passphrase prompt and the fallback transport.
NextConnect ==
    \/ StartStep
    \/ \E k \in Callers : CreateSSHTunnelStep(k) \/ PromptAnswer(k)
    \/ FBStart \/ FBSleep \/ FBCheck

SpecConnect == InitConnect /\ [][NextConnect]_vars

\* Construction with a passphrase-protected key file, no configured
\* passphrase and no agent.
InitPrompt ==
    /\ InitShared /\ InitStreams /\ InitTunnel /\ InitRelays
    /\ envOK \in BOOLEAN
    /\ fwd = "none"
    /\ agentCfg = FALSE
    /\ keyFile = "protected"
    /\ passphrase = "none"
    /\ prompts = 0

\* The tunnel manager with the user at the passphrase prompt.
NextPrompt ==
    \/ NextTunnel
    \/ \E k \in Callers : PromptAnswer(k)

SpecPrompt == InitPrompt /\ [][NextPrompt]_vars

\* What the Go runtime gives a call of Stop: each call runs, and a select
\* that is entered again and again with the done context among its ready
\* cases eventually takes it (the choice among ready cases is random).
StopFairness ==
    /\ \A k \in Stoppers : WF_vars(StopStep(k))
    /\ SF_vars(MonSelect /\ monPc' = "done")

\* The tunnel manager under a protected key without configured passphrase,
\* scheduled fairly; nothing is assumed of the user at the prompt.
FairPrompt ==
    /\ SpecPrompt
    /\ WF_vars(StartStep)
    /\ \A k \in Callers : WF_vars(CreateSSHTunnelStep(k))
    /\ \A c \in Clients : WF_vars(ALSelect(c) \/ ALAcceptErr(c))
    /\ WF_vars(FBStart \/ FBSleep \/ FBCheck)
    /\ WF_vars(WatcherWait)
    /\ WF_vars(CtxKillChild)
    /\ WF_vars(MonitorStep)
    /\ WF_vars(KeepaliveAnswer)
    /\ StopFairness

\* The same with an unprotected key: no prompt is ever issued.
FairStop == FairTunnel /\ StopFairness

\* The running system scheduled fairly, with nothing assumed of the remote
\* host: a keepalive request may stay without a reply.
FairSilent ==
    /\ SpecRunning
    /\ WF_vars(CreateSSHTunnelStep("monitor"))
    /\ \A c \in Clients : WF_vars(ALSelect(c) \/ ALAcceptErr(c))
    /\ WF_vars(MonitorStep)

\* ------------------------------------------------------------- claims
\* C1: a stream request whose id is not a key of the source table is answered
\* 404 and never gets a transcoding process, in every server state: its
\* handler goes from the lookup straight to its return, owns no process, writes
\* no stream byte, and no process in the process table transcodes an unknown source.
C1_UnknownIdNotFound ==
    /\ \A h \in Handlers :
         (hReq[h] # "none" /\ hReq[h] \notin Cameras) =>
            /\ hPc[h] = "done"
            /\ hCmd[h] = 0
            /\ body[h] = <<>>
            /\ status[h] = StatusNotFound
    /\ \A p \in Pids : procs[p].st # "free" => procs[p].src \in Cameras

\* C1 witness: an unknown id has been answered 404 while another request's
\* process is running.
C1_Witness ==
    \E h \in Handlers, g \in Handlers :
        /\ hReq[h] = "unknown" /\ hPc[h] = "done" /\ status[h] = StatusNotFound
        /\ hCmd[g] # 0 /\ procs[hCmd[g]].st = "running"

\* C2: once the client of a stream session has disconnected while the
\* session's transcoding process is running (and has output left to write,
\* whether or not it ever writes it), the process is eventually killed and
\* reaped, unless the server is shut down first.
C2_DisconnectReaps ==
    \A h \in Handlers :
        (/\ clientConn[h] = "gone"
         /\ hCmd[h] # 0
         /\ procs[hCmd[h]].st = "running"
         /\ procs[hCmd[h]].written < MaxChunks)
            ~> (cancelled \/ (hCmd[h] # 0 /\ procs[hCmd[h]].st = "reaped"))

\* The tunnel session is Active: the handle refers to an open control channel
\* that has a bound remote listener and a running accept loop.
Active ==
    /\ sshClient # 0
    /\ conn[sshClient] = "open"
    /\ lsn[sshClient] = "open"
    /\ alPc[sshClient] \in {"select", "accept"}

\* The session is Reconnecting: after a failed keepalive the monitor has closed
\* the control channel of an established session and is about to reconnect.
Reconnecting ==
    /\ monPc = "sleep"
    /\ sshClient # 0
    /\ lsn[sshClient] = "open"
    /\ alPc[sshClient] \in {"select", "accept"}

\* The reconnect is at its dial and the model has no further client to give it.
DialBlocked == ctPc["monitor"] = "dial" /\ FreeClients = {}

\* C3: if from some moment on nothing outside the program fails and shutdown
\* is never signaled, a session that a keepalive failure has moved from Active
\* to Reconnecting eventually becomes Active again.
C3_ReconnectsToActive ==
    (<>[](envOK /\ ~cancelled)) => (Reconnecting ~> (Active \/ DialBlocked))

\* C4: on the loss of an established tunnel while the server is not shutting
\* down, a new attempt to establish it is eventually started, on the primary
\* transport (the control channel was closed after a failed keepalive) and on
\* the fallback transport (the ssh child that held the forward has exited).
C4_LossReestablished ==
    /\ (Reconnecting /\ ~cancelled) ~> (cancelled \/ ctPc["monitor"] # "idle")
    /\ (fwd = "lost" /\ fbRet = "ok" /\ ~cancelled)
          ~> (cancelled \/ ctPc["monitor"] # "idle" \/ fbPc # "idle")

\* C5: once createSSHTunnel has returned the remote-bind failure to Start and
\* Start has gone on to the fallback transport, no control channel is open, the
\* session handle is nil and the monitor sends no keepalive.
C5_BindFailureAbandonsPrimary ==
    (ctRet["start"] = "bind" /\ startPc \in {"fallback", "monitor", "done"}) =>
        /\ sshClient = 0
        /\ \A c \in Clients : conn[c] # "open"
        /\ monPc # "keepalive"

\* C6: Start has reported the fatal failure exactly when both transports have
\* failed, and, unless shutdown was signaled, createSystemSSHTunnel reports
\* success exactly when the ssh child is running after the establishment wait.
C6_ReadyMeansEstablished ==
    /\ [](startResult = "fatal" <=>
            (startPc = "done" /\ ctRet["start"] \in {"auth", "dial", "bind"} /\ fbRet = "err"))
    /\ [][(fbPc = "check" /\ fbPc' = "idle" /\ ~cancelled) =>
            (fbRet' = "ok" <=> sysChild = "running")]_vars

\* C7: once a first call of Stop has returned, no step of a second call changes
\* the state of the server: the context, the HTTP server, the session handle,
\* the control channels, the listeners, the accept loops and the wait group.
C7_SecondStopNoOp ==
    [][(stopPc[1] = "done" /\ stopPc'[2] # stopPc[2]) =>
          UNCHANGED <<cancelled, httpServer, sshClient, wg, conn, lsn, alPc>>]_vars

\* C8 as stated: a relay call that got past the local dial has returned only
\* after both copy directions have completed.
C8_ReturnsAfterBoth ==
    \A r \in Relays :
        (rPc[r] = "returned" /\ rErr[r] = "none") =>
            \A d \in Directions : rCopy[r][d] = "finished"

\* C8 (amended): a relay call that got past the local dial has returned only
\* after at least one copy direction has completed, and with both endpoints closed.
C8_ReturnsAfterOne ==
    \A r \in Relays :
        (rPc[r] = "returned" /\ rErr[r] = "none") =>
            /\ \E d \in Directions : rCopy[r][d] = "finished"
            /\ rLocal[r] = "closed" /\ rRemote[r] = "closed"

\* C8 witness: a relay has returned while one copy direction is still running.
C8_Witness ==
    \E r \in Relays, d \in Directions, e \in Directions :
        /\ rPc[r] = "returned" /\ rErr[r] = "none"
        /\ rCopy[r][d] = "finished" /\ rCopy[r][e] = "running"

\* What one stream session consists of: the handler's position, its process,
\* its pipe and the bytes its client has received.
SessionView(h) ==
    <<hPc[h], hCmd[h], status[h], body[h],
      IF hCmd[h] # 0 THEN <<procs[hCmd[h]], pipe[hCmd[h]]>> ELSE <<>> >>

\* A step that ends (part of) session h: its client disconnects, its handler
\* leaves the copy, its process stops running.
TerminationStep(h) ==
    \/ clientConn[h] = "connected" /\ clientConn'[h] = "gone"
    \/ hPc[h] # hPc'[h] /\ hPc'[h] = "done"
    \/ hCmd[h] # 0 /\ procs[hCmd[h]].st = "running" /\ procs'[hCmd[h]].st # "running"

\* C9: concurrent stream sessions, also of the same source id, never share a
\* process (each started handler holds a process id no other handler holds, and
\* every process is held by a handler), and a step that terminates one session
\* leaves the handler, process, pipe and delivered bytes of every other session
\* unchanged.
C9_SessionsIndependent ==
    /\ [](\A h \in Handlers, g \in Handlers :
            (h # g /\ hCmd[h] # 0) => hCmd[h] # hCmd[g])
    /\ [](\A p \in Pids : procs[p].st # "free" => \E h \in Handlers : hCmd[h] = p)
    /\ [][\A h \in Handlers : TerminationStep(h) =>
            \A g \in Handlers \ {h} : SessionView(g)' = SessionView(g)]_vars

\* C9 witness: two sessions of the same source; one has ended with its process
\* killed and reaped, the other is still copying from its running process.
C9_Witness ==
    \E h \in Handlers, g \in Handlers :
        /\ h # g /\ hReq[h] = hReq[g]
        /\ hPc[h] = "done" /\ hCmd[h] # 0 /\ procs[hCmd[h]].st = "reaped"
        /\ hPc[g] = "copy" /\ procs[hCmd[g]].st = "running" /\ body[g] # <<>>

\* C10: a request whose transcoding process could not be started is answered
\* 500, has received no stream byte, and has no process: its handler holds
\* none, and every process in the table is held by some handler.
C10_StartFailure ==
    /\ \A h \in Handlers :
         hErr[h] = "start" =>
            /\ hPc[h] = "done"
            /\ status[h] = StatusInternalServerError
            /\ body[h] = <<>>
            /\ hCmd[h] = 0
    /\ \A p \in Pids : procs[p].st # "free" => \E h \in Handlers : hCmd[h] = p

\* C10 witness: a start failure answered 500 (here while the context is not
\* done, so the spawn itself failed).
C10_Witness ==
    \E h \in Handlers :
        hErr[h] = "start" /\ status[h] = StatusInternalServerError /\ ~cancelled

\* C11: credential resolution fails the connect attempt exactly when neither
\* the agent nor the key file has produced an identity (an agent identity alone
\* or a key identity alone lets it go on to the dial), and it fails before any
\* dial: the error is returned from credential resolution, with no client
\* opened and the session handle untouched.
C11_CredentialResolution ==
    /\ [](\A k \in Callers : ctPc[k] = "dial" => ctAuth[k] # <<>>)
    /\ [][\A k \in Callers :
            /\ (ctPc[k] \in {"creds", "prompt"} /\ ctPc'[k] \notin {"creds", "prompt"}) =>
                 /\ (ctRet'[k] = "auth") <=> (ctAuth'[k] = <<>>)
                 /\ (ctRet'[k] = "auth") => (ctPc'[k] = "idle" /\ UNCHANGED <<conn, sshClient>>)
                 /\ (ctRet'[k] # "auth") => (ctPc'[k] = "dial")
            /\ (ctRet'[k] = "auth" /\ ctRet[k] # "auth") => ctPc[k] \in {"creds", "prompt"}]_vars

\* C11 witness: with no agent and an unusable key file Start's attempt has
\* failed without a dial, and the fallback is being started.
C11_Witness ==
    /\ ~agentCfg /\ keyFile = "unusable"
    /\ ctRet["start"] = "auth"
    /\ \A c \in Clients : conn[c] = "none"
    /\ startPc = "fallback"

\* C12: with a protected key file, no configured passphrase and no agent, the
\* program prompts at most once in its life (a connect attempt prompts once,
\* and no retry of the connect sequence and no fallback prompts again), and an
\* attempt whose prompt did not yield the key fails with the authentication error.
C12_SinglePrompt ==
    /\ [](prompts <= 1)
    /\ [][\A k \in Callers :
            (ctPc[k] = "prompt" /\ ctPc'[k] # "prompt" /\ ctAuth'[k] = <<>>) =>
                ctRet'[k] = "auth"]_vars

\* C13: once a call of Stop has returned, no control channel the process has
\* opened is open, whatever the monitor was doing when Stop was called.
C13_StopClosesChannels ==
    (\E k \in Stoppers : stopPc[k] = "done") => \A c \in Clients : conn[c] # "open"

\* A connect attempt is at a step the model's bounds keep it from taking: a
\* prompt beyond MaxPrompts.
PromptBlocked ==
    \E k \in Callers : ctPc[k] = "creds" /\ NeedsPrompt /\ prompts >= MaxPrompts

\* The background tasks registered in the wait group that are running.
TasksRunning ==
    \/ monPc \notin {"none", "done"}
    \/ \E c \in Clients : alPc[c] \in {"select", "accept"}
    \/ watcherPc = "waiting"

\* C14: every call of Stop eventually returns, whatever the monitor, the accept
\* loops and the watcher of the fallback child are doing, and at its return the
\* wait group is empty and none of these tasks is running.
C14_StopReturns ==
    /\ \A k \in Stoppers :
         (stopPc[k] \notin {"idle", "done"}) ~> (stopPc[k] = "done" \/ DialBlocked \/ PromptBlocked)
    /\ [][\A k \in Stoppers :
            (stopPc[k] # "done" /\ stopPc'[k] = "done") => (wg = 0 /\ ~TasksRunning)]_vars

\* A reconnect attempt of the monitor has just failed: createSSHTunnel has
\* returned an error the monitor is about to log.
FailedReconnect ==
    /\ monPc = "reconnect"
    /\ ctPc["monitor"] = "idle"
    /\ ctRet["monitor"] \in {"auth", "dial", "bind"}

\* C15: the monitor ends only at shutdown, and after a reconnect attempt has
\* failed, for whichever cause, it eventually starts another attempt unless
\* shutdown is signaled.
C15_RetriesAfterFailure ==
    /\ [](monPc = "done" => cancelled)
    /\ FailedReconnect ~> (cancelled \/ ctPc["monitor"] # "idle")

\* C16: the monitor does not stay inside a keepalive request: unless shutdown
\* is signaled, a request that is sent eventually ends, with its reply or, when
\* no reply comes, as a failure that moves the session to Reconnecting.
C16_UnansweredKeepalive ==
    (monPc = "keepalive" /\ ~cancelled) ~> (cancelled \/ monPc # "keepalive")

\* C17: at every moment at most one tunnel session exists: at most one control
\* channel opened by the process is open, a reconnect dials only after the old
\* control channel is closed, and no control channel is open while the fallback
\* child process is alive.
C17_OneSession ==
    /\ Cardinality({c \in Clients : conn[c] = "open"}) <= 1
    /\ (ctPc["monitor"] = "dial" /\ sshClient # 0) => conn[sshClient] = "closed"
    /\ sysChild = "running" => \A c \in Clients : conn[c] # "open"

\* C18: no two executions of createSSHTunnel overlap: the one run by Start
\* happens before the monitor exists, every later one is run by the monitor
\* inside its reconnect step, and a step that begins an execution finds none in
\* progress.
C18_ConnectSerialized ==
    /\ [](~(ctPc["start"] # "idle" /\ ctPc["monitor"] # "idle"))
    /\ [](ctPc["start"] # "idle" => (startPc = "primary" /\ monPc = "none"))
    /\ [](ctPc["monitor"] # "idle" => monPc = "reconnect")
    /\ [][\A k \in Callers :
            (ctPc[k] = "idle" /\ ctPc'[k] # "idle")
                => \A j \in Callers : ctPc[j] = "idle"]_vars

C18_Witness ==
    /\ startResult = "ready"
    /\ ctPc["monitor"] = "listen"
    /\ ctRet["start"] = "ok"

\* C19: once shutdown is signaled, every transcoding process that is running
\* is eventually reaped, also when the client of its handler has stopped
\* reading, and so is the fallback ssh child.
C19_ShutdownReaps ==
    /\ \A p \in Pids : (cancelled /\ procs[p].st = "running") ~> procs[p].st = "reaped"
    /\ (cancelled /\ sysChild = "running") ~> sysChild = "reaped"

\* C20: a relay that has ended has closed its endpoints: the accepted
\* connection in every case, and the local connection whenever the local dial
\* had succeeded (after a failed dial there is no local connection), whichever
\* copy direction delivered the result the relay returned on.
C20_EndpointsClosed ==
    \A r \in Relays :
        rPc[r] = "returned" =>
            /\ rRemote[r] = "closed"
            /\ rErr[r] = "none" => rLocal[r] = "closed"
            /\ rErr[r] = "dial" => rLocal[r] = "none"

\* C20 witness: one relay has ended on the result of the local-to-remote
\* direction while the other direction is still copying, and another relay has
\* ended on a failed local dial.
C20_Witness ==
    \E r \in Relays, q \in Relays :
        /\ rPc[r] = "returned" /\ rErr[r] = "none"
        /\ rCopy[r]["out"] = "finished" /\ rCopy[r]["in"] = "running"
        /\ rPc[q] = "returned" /\ rErr[q] = "dial"

\* What one relay consists of.
RelayView(r) == <<rPc[r], rClient[r], rErr[r], rRemote[r], rLocal[r], rCopy[r], rDone[r]>>

\* A step of relay r's own goroutines: its dial, the end of one of its copy
\* directions, its return.
RelayOwnStep(r) ==
    /\ rPc[r] \in {"dial", "wait", "returned"}
    /\ <<rPc[r], rErr[r], rCopy[r], rDone[r]>>' # <<rPc[r], rErr[r], rCopy[r], rDone[r]>>

\* C21: a step of one relay (its failed local dial, the end of a copy
\* direction by EOF or error, its return) leaves everything else as it was:
\* the context, the HTTP server, the session handle, the control channels, the
\* remote listeners, the accept loops, the wait group, and every other relay.
C21_RelayFailureLocal ==
    [][\A r \in Relays :
          RelayOwnStep(r) =>
              /\ UNCHANGED <<cancelled, httpServer, sshClient, wg, conn, lsn, alPc>>
              /\ UNCHANGED <<startPc, startResult, monPc, ctPc, ctRet>>
              /\ \A q \in Relays \ {r} : RelayView(q)' = RelayView(q)]_vars

\* C21 witness: one relay has ended on a failed local dial while the accept
\* loop is in Accept on the open listener of the open control channel, the HTTP
\* server is serving and another relay is copying.
C21_Witness ==
    \E r \in Relays, q \in Relays, c \in Clients :
        /\ rPc[r] = "returned" /\ rErr[r] = "dial"
        /\ rPc[q] = "wait" /\ rCopy[q]["in"] = "running"
        /\ conn[c] = "open" /\ lsn[c] = "open" /\ alPc[c] = "accept"
        /\ sshClient = c /\ httpServer = "serving"

\* C22: the remote-bind spellings are requested in their listed order
\* (0.0.0.0:port, :port, *:port), one after the other from the first; a
\* request is made only while no spelling has succeeded; the listener the call
\* holds, the one the session's accept loop is started on, is the one granted
\* for the last spelling requested, which is the first that succeeded.
C22_SpellingsInOrder ==
    /\ [](Spellings = <<"0.0.0.0:port", ":port", "*:port">>)
    /\ [](\A k \in Callers :
            /\ ctPc[k] = "listen" => (ctIdx[k] \in 1..NSpell /\ ctLsn[k] = 0)
            /\ ctLsn[k] # 0 => (ctLsn[k] = ctIdx[k] /\ ctPc[k] = "after"))
    /\ [][\A k \in Callers :
            /\ ctIdx'[k] # ctIdx[k] =>
                  \/ ctIdx'[k] = ctIdx[k] + 1 /\ ctLsn[k] = 0 /\ ctLsn'[k] = 0
                  \/ ctIdx'[k] = 0 /\ ctPc'[k] = "idle"
            /\ (ctLsn[k] = 0 /\ ctLsn'[k] # 0) =>
                  /\ ctLsn'[k] = ctIdx[k]
                  /\ lsn[ctClient[k]] # "open" /\ lsn'[ctClient[k]] = "open"
            /\ (ctPc[k] = "after" /\ ctPc'[k] = "idle" /\ ctRet'[k] = "ok") =>
                  /\ ctLsn[k] # 0
                  /\ alPc'[ctClient[k]] = "select"]_vars

\* C22 witness: the first spelling was refused and the second granted: the
\* call holds the listener of the second and goes on without requesting the
\* third.
C22_Witness ==
    \E k \in Callers :
        /\ ctPc[k] = "after" /\ ctIdx[k] = 2 /\ ctLsn[k] = 2
        /\ lsn[ctClient[k]] = "open"

\* C23: the monitor's handling of a tick at which s.sshClient is nil sends no
\* keepalive and starts no reconnect (the monitor goes straight back to its
\* select) and changes nothing of the server, the session, the fallback
\* transport or the connect sequence.
C23_NilHandleTick ==
    [][(monPc = "tick" /\ sshClient = 0 /\ monPc' # monPc) =>
          /\ monPc' = "select"
          /\ UNCHANGED <<sharedVars, conn, lsn, alPc, startPc, startResult, ctPc, ctClient,
                         ctAuth, ctIdx, ctLsn, ctRet, fbPc, fbRet, sysProc, sysChild,
                         watcherPc, stopPc, envVars, relayVars, streamVars>>]_vars

\* C23 witness: a tick is taken while the tunnel runs on the fallback
\* transport with a nil handle.
C23_Witness ==
    /\ monPc = "tick"
    /\ sshClient = 0
    /\ sysChild = "running"
    /\ startResult = "ready"

\* The chunks process p has written, in the order it wrote them, as the client
\* of its handler receives them.
Written(p) == [i \in 1..procs[p].written |-> <<p, i>>]

\* C24: a handler whose client is still connected returns from the copy only
\* once its process is gone and the pipe is drained: the client has then
\* received every chunk the process wrote, in order, the process is reaped and
\* the response status is 200 whatever the process exited with; and once the
\* process has exited the handler does return.
C24_ExitDrainsPipe ==
    /\ [][\A h \in Handlers :
            (hPc[h] = "copy" /\ hPc'[h] = "done" /\ clientConn[h] = "connected") =>
                /\ procs[hCmd[h]].st # "running"
                /\ body'[h] = Written(hCmd[h])
                /\ procs'[hCmd[h]].st = "reaped"
                /\ status[h] \in {0, StatusOK}
                /\ status'[h] = StatusOK]_vars
    /\ \A h \in Handlers :
          (hPc[h] = "copy" /\ procs[hCmd[h]].st = "exited") ~> hPc[h] = "done"

\* C24 witness: the process wrote two chunks and exited on its own; the
\* handler, whose client stayed connected, has delivered both and returned.
C24_Witness ==
    \E h \in Handlers :
        /\ hPc[h] = "done" /\ hCmd[h] # 0
        /\ ~cancelled
        /\ procs[hCmd[h]].st = "reaped" /\ procs[hCmd[h]].written = 2
        /\ body[h] = <<<<hCmd[h], 1>>, <<hCmd[h], 2>>>>
        /\ status[h] = StatusOK

\* C25: when createSSHTunnel returns an error, no control channel this
\* attempt has dialed is open, and the handle never refers to an open channel
\* that has no remote listener once the attempt that dialed it is over.
C25_ErrorLeavesNoChannel ==
    /\ [][\A k \in Callers :
            (ctPc[k] # "idle" /\ ctPc'[k] = "idle" /\ ctRet'[k] # "ok") =>
                (ctClient[k] = 0 \/ conn'[ctClient[k]] # "open")]_vars
    /\ []((sshClient # 0 /\ conn[sshClient] = "open" /\ lsn[sshClient] = "none")
            => \E k \in Callers : ctPc[k] \in {"listen", "after"} /\ ctClient[k] = sshClient)

\* C26: an accept loop whose control channel has been closed (by the monitor
\* before a reconnect, or by Stop) eventually terminates, so that it does not
\* go on iterating on a listener that has failed.
C26_AcceptLoopEnds ==
    \A c \in Clients :
        (alPc[c] \in {"select", "accept"} /\ conn[c] = "closed") ~> alPc[c] = "exited"

\* C27: no step adds a task to the wait group (wg.Add) while a call of Stop is
\* in wg.Wait or has returned from it.
C27_NoAddAfterWait ==
    [][wg' > wg => \A k \in Stoppers : stopPc[k] \notin {"wait", "done"}]_vars

\* The transcoding processes that are alive, and the handlers in flight.
LiveProcs == {p \in Pids : procs[p].st = "running"}
InFlight == {h \in Handlers : hPc[h] \in {"start", "copy"}}

\* C28: each live transcoding process is the process of exactly one handler,
\* and that handler has not returned; a handler that has returned after a
\* successful start has left its process killed and reaped; so the live
\* processes never outnumber the stream requests in flight.
C28_LiveProcsOwned ==
    /\ \A p \in LiveProcs :
          /\ Cardinality({h \in Handlers : hCmd[h] = p}) = 1
          /\ \A h \in Handlers : hCmd[h] = p => hPc[h] = "copy"
    /\ \A h \in Handlers :
          (hPc[h] = "done" /\ hCmd[h] # 0) => procs[hCmd[h]].st = "reaped"
    /\ Cardinality(LiveProcs) <= Cardinality(InFlight)

\* C28 witness: one handler has returned with its process reaped while the
\* process of another handler, still copying, is alive.
C28_Witness ==
    \E h \in Handlers, g \in Handlers :
        /\ hPc[h] = "done" /\ hCmd[h] # 0 /\ procs[hCmd[h]].st = "reaped"
        /\ hPc[g] = "copy" /\ procs[hCmd[g]].st = "running"

====
